---- MODULE Spec2Model ----
(***************************************************************************)
(* A model of extractor.py: the extraction of certificate/key pairs from   *)
(* an ACME store (acme.json) into per-domain folders.                      *)
(*                                                                         *)
(* Texts are sequences of code points, file contents and decoded fields    *)
(* are sequences of bytes, base64 fields and domain names are sequences of *)
(* one-character strings.                                                  *)
(***************************************************************************)
EXTENDS Integers, Sequences, FiniteSets, TLC

\* ------------------------------------------------------------------------
\* Bounds of the model
\* ------------------------------------------------------------------------

\* The longest certificate list of a store.
MaxRecords == 2

\* The number of I/O failures the environment injects in one behaviour.
MaxFaults == 1

\* The last second the clock reaches (timestamps have second resolution).
MaxClock == 1

\* The number of runs of the tool on the same store and output directory.
MaxRuns == 2

\* The most entries of a `domain` map and of a `domains` list (SpecResolve).
MaxEntries == 2

\* ------------------------------------------------------------------------
\* Sequences
\* ------------------------------------------------------------------------

RECURSIVE Concat(_)
Concat(ss) ==
    IF ss = <<>> THEN <<>> ELSE Head(ss) \o Concat(Tail(ss))

Range(s) == {s[i] : i \in 1..Len(s)}

SeqsUpTo(S, n) == UNION {[1..k -> S] : k \in 0..n}

\* The lists of at most n elements of S that hold no element twice.
ListsOf(S, n) ==
    {l \in SeqsUpTo(S, n) : \A i, j \in 1..Len(l) : l[i] = l[j] => i = j}

\* ------------------------------------------------------------------------
\* base64.b64decode (non-strict), as binascii.a2b_base64 computes it
\* ------------------------------------------------------------------------

Alphabet ==
    << "A","B","C","D","E","F","G","H","I","J","K","L","M","N","O","P",
       "Q","R","S","T","U","V","W","X","Y","Z","a","b","c","d","e","f",
       "g","h","i","j","k","l","m","n","o","p","q","r","s","t","u","v",
       "w","x","y","z","0","1","2","3","4","5","6","7","8","9","+","/" >>

Pad == "="

\* The outcome of a conversion: its value, or the error it raises.
DecodeError == [ok |-> FALSE, val |-> <<>>]

Decoded(v) == [ok |-> TRUE, val |-> v]

IsB64Char(c) == \E i \in 1..Len(Alphabet) : Alphabet[i] = c

B64Val(c) == (CHOOSE i \in 1..Len(Alphabet) : Alphabet[i] = c) - 1

\* One state of the decoder's loop: the position in the quad, the bits left
\* over from the previous character, the pads seen in a row, the bytes out.
\* A character outside the alphabet is discarded; a pad that completes the
\* quad ends the input; input that ends inside a quad is an error.
RECURSIVE B64Loop(_, _, _, _, _)
B64Loop(s, quad, left, pads, out) ==
    IF s = <<>>
    THEN IF quad # 0 THEN DecodeError ELSE Decoded(out)
    ELSE LET c == Head(s)
         IN  IF c = Pad
             THEN IF quad >= 2 /\ quad + pads + 1 >= 4
                  THEN Decoded(out)
                  ELSE B64Loop(Tail(s), quad, left, pads + 1, out)
             ELSE IF ~IsB64Char(c)
             THEN B64Loop(Tail(s), quad, left, pads, out)
             ELSE LET v == B64Val(c)
                  IN  CASE quad = 0 -> B64Loop(Tail(s), 1, v, 0, out)
                        [] quad = 1 -> B64Loop(Tail(s), 2, v % 16, 0,
                                          Append(out, (left * 4) + (v \div 16)))
                        [] quad = 2 -> B64Loop(Tail(s), 3, v % 4, 0,
                                          Append(out, (left * 16) + (v \div 4)))
                        [] OTHER    -> B64Loop(Tail(s), 0, 0, 0,
                                          Append(out, (left * 64) + v))

b64decode(s) == B64Loop(s, 0, 0, 0, <<>>)

\* ------------------------------------------------------------------------
\* bytes.decode('utf-8') and the encoding of a text written in text mode
\* ------------------------------------------------------------------------

IsCont(b) == b >= 128 /\ b <= 191

\* The well-formed byte sequences of UTF-8 (no overlong forms, no
\* surrogates, nothing above U+10FFFF); anything else is an error.
RECURSIVE Utf8Loop(_, _)
Utf8Loop(b, out) ==
    IF b = <<>> THEN Decoded(out)
    ELSE LET b1 == b[1] n == Len(b)
         IN  IF b1 < 128
             THEN Utf8Loop(Tail(b), Append(out, b1))
             ELSE IF b1 >= 194 /\ b1 <= 223 /\ n >= 2 /\ IsCont(b[2])
             THEN Utf8Loop(SubSeq(b, 3, n),
                           Append(out, ((b1 - 192) * 64) + (b[2] - 128)))
             ELSE IF /\ b1 >= 224 /\ b1 <= 239 /\ n >= 3
                     /\ IsCont(b[2]) /\ IsCont(b[3])
                     /\ (b1 = 224 => b[2] >= 160)
                     /\ (b1 = 237 => b[2] <= 159)
             THEN Utf8Loop(SubSeq(b, 4, n),
                           Append(out, ((b1 - 224) * 4096) + ((b[2] - 128) * 64)
                                       + (b[3] - 128)))
             ELSE IF /\ b1 >= 240 /\ b1 <= 244 /\ n >= 4
                     /\ IsCont(b[2]) /\ IsCont(b[3]) /\ IsCont(b[4])
                     /\ (b1 = 240 => b[2] >= 144)
                     /\ (b1 = 244 => b[2] <= 143)
             THEN Utf8Loop(SubSeq(b, 5, n),
                           Append(out, ((b1 - 240) * 262144) + ((b[2] - 128) * 4096)
                                       + ((b[3] - 128) * 64) + (b[4] - 128)))
             ELSE DecodeError

utf8decode(b) == Utf8Loop(b, <<>>)

EncodePoint(p) ==
    IF p < 128 THEN <<p>>
    ELSE IF p < 2048 THEN <<192 + (p \div 64), 128 + (p % 64)>>
    ELSE IF p < 65536
    THEN <<224 + (p \div 4096), 128 + ((p \div 64) % 64), 128 + (p % 64)>>
    ELSE <<240 + (p \div 262144), 128 + ((p \div 4096) % 64),
           128 + ((p \div 64) % 64), 128 + (p % 64)>>

\* f.write(text) on a file opened with 'w': the text's UTF-8 bytes; the
\* line separator of the platform is "\n", so no character is translated.
utf8encode(t) == Concat([i \in 1..Len(t) |-> EncodePoint(t[i])])

CR == 13
LF == 10

\* f.read() on a file opened with 'r': universal newlines, "\r\n" and a
\* lone "\r" both read as "\n".
RECURSIVE TranslateNewlines(_)
TranslateNewlines(t) ==
    IF t = <<>> THEN <<>>
    ELSE IF t[1] = CR
    THEN IF Len(t) >= 2 /\ t[2] = LF
         THEN <<LF>> \o TranslateNewlines(SubSeq(t, 3, Len(t)))
         ELSE <<LF>> \o TranslateNewlines(Tail(t))
    ELSE <<t[1]>> \o TranslateNewlines(Tail(t))

ReadText(bytes) ==
    LET t == utf8decode(bytes)
    IN  IF t.ok THEN Decoded(TranslateNewlines(t.val)) ELSE DecodeError

\* base64.b64decode(field).decode('utf-8')
DecodeField(field) ==
    LET b == b64decode(field)
    IN  IF b.ok THEN utf8decode(b.val) ELSE DecodeError

\* ------------------------------------------------------------------------
\* The store (acme.json) and its certificate records
\* ------------------------------------------------------------------------

\* An optional key of a JSON object: present with a value, or absent.
Absent == [present |-> FALSE, val |-> <<>>]

Present(v) == [present |-> TRUE, val |-> v]

\* A JSON object is the sequence of its <<key, value>> entries, in the order
\* the parser met them.
HasKey(map, k) == \E i \in 1..Len(map) : map[i][1] = k

Lookup(map, k) == map[CHOOSE i \in 1..Len(map) : map[i][1] = k][2]

Unknown == <<"u","n","k","n","o","w","n">>

NameA == <<"a">>

NameStar == <<"*",".","b">>

\* The outcome of a step that can raise: [ok, val].
Raised == [ok |-> FALSE, val |-> <<>>]

\* What standard base64 makes of a byte string (the producer of the store).
RECURSIVE b64encode(_)
b64encode(b) ==
    IF b = <<>> THEN <<>>
    ELSE IF Len(b) = 1
    THEN << Alphabet[(b[1] \div 4) + 1], Alphabet[((b[1] % 4) * 16) + 1],
            Pad, Pad >>
    ELSE IF Len(b) = 2
    THEN << Alphabet[(b[1] \div 4) + 1],
            Alphabet[((b[1] % 4) * 16) + (b[2] \div 16) + 1],
            Alphabet[((b[2] % 16) * 4) + 1], Pad >>
    ELSE << Alphabet[(b[1] \div 4) + 1],
            Alphabet[((b[1] % 4) * 16) + (b[2] \div 16) + 1],
            Alphabet[((b[2] % 16) * 4) + (b[3] \div 64) + 1],
            Alphabet[(b[3] % 64) + 1] >> \o b64encode(SubSeq(b, 4, Len(b)))

\* The texts a store holds, as bytes: "A", "B", "C\r\n" and "Ké".
TextA == <<65>>
TextB == <<66>>
TextC == <<67, 13, 10>>
TextK == <<75, 195, 169>>

Plaintexts == {TextA, TextB, TextC, TextK}

MainOf(name) == Present(<< <<"main", name>> >>)

Record(dom, doms, cert, key) ==
    [domain |-> dom, domains |-> doms, certificate |-> cert, key |-> key]

\* The records of the stores: two valid ones for the same domain with
\* different certificates, a valid wildcard one whose certificate ends in
\* CRLF, and one whose key lacks its padding.
RecordPool ==
    { Record(MainOf(NameA), Absent, Present(b64encode(TextA)), Present(b64encode(TextK))),
      Record(MainOf(NameA), Absent, Present(b64encode(TextB)), Present(b64encode(TextK))),
      Record(MainOf(NameStar), Absent, Present(b64encode(TextC)), Present(b64encode(TextK))),
      Record(MainOf(NameA), Absent, Present(b64encode(TextA)), Present(<<"S","w","=">>)) }

\* Further records: one whose key is empty, one with no key at all, and one
\* whose first `domains` element has no `main`.
OddRecords ==
    { Record(MainOf(NameA), Absent, Present(b64encode(TextA)), Present(<<>>)),
      Record(MainOf(NameStar), Absent, Present(b64encode(TextA)), Absent),
      Record(Absent, Present(<< << <<"sans", NameStar>> >>, << <<"main", NameA>> >> >>),
             Present(b64encode(TextA)), Present(b64encode(TextK))) }

\* ------------------------------------------------------------------------
\* Domain resolution and sanitization
\* ------------------------------------------------------------------------

\* The loop's domain resolution; cert_data['domains'][0]['main'] raises
\* KeyError when the first element has no `main`.
ResolveName(cert_data) ==
    IF cert_data.domain.present
    THEN IF HasKey(cert_data.domain.val, "main")
         THEN Decoded(Lookup(cert_data.domain.val, "main"))
         ELSE IF cert_data.domain.val # <<>>
              THEN Decoded(cert_data.domain.val[1][2])
              ELSE Decoded(Unknown)
    ELSE IF cert_data.domains.present
    THEN IF cert_data.domains.val # <<>>
         THEN IF HasKey(cert_data.domains.val[1], "main")
              THEN Decoded(Lookup(cert_data.domains.val[1], "main"))
              ELSE Raised
         ELSE Decoded(Unknown)
    ELSE Decoded(Unknown)

Wildcard == <<"w","i","l","d","c","a","r","d">>

\* domain.replace('*', 'wildcard')
Sanitize(name) ==
    Concat([i \in 1..Len(name) |-> IF name[i] = "*" THEN Wildcard ELSE <<name[i]>>])

\* cert_data.get(field, '')
GetField(opt) == IF opt.present THEN opt.val ELSE <<>>

\* ------------------------------------------------------------------------
\* The output tree
\* ------------------------------------------------------------------------

CertName == "certificate.pem"

KeyName == "private_key.pem"

CombinedName == "combined.pem"

\* The loop's order over the output files when archiving.
FileNames == <<CertName, KeyName, CombinedName>>

\* The folders a record of the model can resolve to.
Folders == {Sanitize(n) : n \in {NameA, NameStar, Unknown}}

\* A file's mode is the set of classes it grants any access to.
OwnerOnly == {"owner"}

\* The mode of a file that open(..., 'w') creates (0666 under umask 022).
DefaultMode == {"owner", "group", "other"}

NoFile == [exists |-> FALSE, content |-> <<>>, mode |-> {}]

File(content, mode) == [exists |-> TRUE, content |-> content, mode |-> mode]

Clock == 0..MaxClock

\* ------------------------------------------------------------------------
\* State
\* ------------------------------------------------------------------------

VARIABLES
    acme_file,          \* the input path: "missing", "badjson" or "ok"
    store,              \* what the input file holds when it parses
    inputOpen,          \* the input file is open
    archive_old,        \* -a
    skip_existing,      \* -s
    outdir,             \* the output directory exists
    folders,            \* the domain folders that exist
    archdirs,           \* the domain folders that have an archive/ folder
    files,              \* <<folder, name>> -> the file there
    archived,           \* <<folder, name, timestamp>> -> the archived file
    now,                \* the clock, in seconds
    faults,             \* the I/O failures injected so far
    run,                \* the number of the current run
    pc,                 \* the position in extract_certificates
    status,             \* the exit status of the process
    data,               \* the parsed store
    certificates_data,  \* the certificate list
    idx,                \* the position of the loop in the list
    domain,
    certificate,
    key,
    sanitized_domain,
    fidx,               \* the position of the archive loop in FileNames
    extracted_count,
    out,                \* the lines printed
    old,                \* the record's three files as its archiving began
    moved,              \* name -> what the archive loop did with it
    written,            \* the <<folder, name>> written so far in this run
    last,               \* how the last finished record ended
    final,              \* folder -> how its last valid record ended
    changes             \* the writes, moves and chmods of this run

vars ==
    << acme_file, store, inputOpen, archive_old, skip_existing, outdir,
       folders, archdirs, files, archived, now, faults, run, pc, status,
       data, certificates_data, idx, domain, certificate, key,
       sanitized_domain, fidx, extracted_count, out, old, moved, written,
       last, final, changes >>

input == << acme_file, store, archive_old, skip_existing >>

tree == << outdir, folders, archdirs, files, archived >>

locals == << domain, certificate, key, sanitized_domain, fidx >>

Line(kind, arg) == [line |-> kind, idx |-> idx, arg |-> arg]

Say(kind, arg) == out' = Append(out, Line(kind, arg))

NoMoves == [n \in Range(FileNames) |-> [res |-> "none", ts |-> 0]]

NoOld == [n \in Range(FileNames) |-> NoFile]

NoRecord == [idx |-> 0, outcome |-> "none", folder |-> <<>>]

Ended(outcome, folder) == [idx |-> idx, outcome |-> outcome, folder |-> folder]

EmptyStore == [letsencrypt |-> Absent, acme |-> Absent]

\* The stores over a set of records: every list of distinct records under
\* `letsencrypt`; the lists of one record under `acme` instead, and under
\* `acme` beside an empty `letsencrypt`.
StoresOf(records) ==
    {[letsencrypt |-> Present(l), acme |-> Absent] :
        l \in ListsOf(records, MaxRecords)}
    \cup {[letsencrypt |-> e, acme |-> Present(<<r>>)] :
        e \in {Absent, Present(<<>>)}, r \in records}

\* The output trees a run can start from: nothing; folder "a" with the
\* files of an earlier extraction ("O", "P", "OP"); folder "a" with the
\* certificate "A" and key "Ké" but no combined.pem.
NoFiles == [p \in Folders \X Range(FileNames) |-> NoFile]

OldFiles ==
    [NoFiles EXCEPT ![<<NameA, CertName>>] = File(<<79>>, DefaultMode),
                    ![<<NameA, KeyName>>] = File(<<80>>, OwnerOnly),
                    ![<<NameA, CombinedName>>] = File(<<79, 80>>, OwnerOnly)]

PartFiles ==
    [NoFiles EXCEPT ![<<NameA, CertName>>] = File(TextA, DefaultMode),
                    ![<<NameA, KeyName>>] = File(TextK, OwnerOnly)]

InitialTrees ==
    { [outdir |-> FALSE, folders |-> {}, files |-> NoFiles],
      [outdir |-> TRUE, folders |-> {NameA}, files |-> OldFiles],
      [outdir |-> TRUE, folders |-> {NameA}, files |-> PartFiles] }

RunStart ==
    /\ pc = "open"
    /\ status = 0
    /\ inputOpen = FALSE
    /\ data = EmptyStore
    /\ certificates_data = <<>>
    /\ idx = 0
    /\ domain = Unknown
    /\ certificate = <<>>
    /\ key = <<>>
    /\ sanitized_domain = <<>>
    /\ fidx = 0
    /\ extracted_count = 0
    /\ out = <<>>
    /\ old = NoOld
    /\ moved = NoMoves
    /\ written = {}
    /\ last = NoRecord
    /\ final = [f \in Folders |-> NoRecord]
    /\ changes = 0

InitWith(stores, trees) ==
    /\ \/ acme_file \in {"missing", "badjson"} /\ store = EmptyStore
       \/ acme_file = "ok" /\ store \in stores
    /\ archive_old \in BOOLEAN
    /\ skip_existing \in BOOLEAN
    /\ \E t \in trees :
          /\ outdir = t.outdir
          /\ folders = t.folders
          /\ files = t.files
    /\ archdirs = {}
    /\ archived = [p \in Folders \X Range(FileNames) \X Clock |-> NoFile]
    /\ now = 0
    /\ faults = 0
    /\ run = 1
    /\ RunStart

Init == InitWith(StoresOf(RecordPool), InitialTrees)

\* ------------------------------------------------------------------------
\* Steps shared by the actions
\* ------------------------------------------------------------------------

env == << acme_file, store, archive_old, skip_existing, run >>

CanFault == faults < MaxFaults

\* An uncaught exception: the interpreter prints the traceback and exits 1.
Crash ==
    /\ status' = 1
    /\ pc' = "exit"

\* `continue`, or the end of the loop's body: on to the next record.
Continue ==
    /\ idx' = idx + 1
    /\ pc' = IF idx + 1 > Len(certificates_data) THEN "summary" ELSE "resolve"

\* The record is finished, with `outcome`, before its folder is known.
EndEarly(outcome) ==
    /\ last' = Ended(outcome, <<>>)
    /\ Continue

\* The record is finished, with `outcome`, in its domain folder.
EndRecord(outcome) ==
    /\ last' = Ended(outcome, sanitized_domain)
    /\ final' = [final EXCEPT ![sanitized_domain] = Ended(outcome, sanitized_domain)]
    /\ Continue

\* data.get('letsencrypt', {}).get('Certificates', []), else the same of 'acme'
SelectCertificates(d) ==
    IF GetField(d.letsencrypt) # <<>> THEN GetField(d.letsencrypt)
    ELSE GetField(d.acme)

\* The file open(path, 'w') leaves once `bytes` are written and it is closed:
\* an existing file keeps its mode, a new one gets the default mode.
WrittenFile(f, bytes) ==
    File(bytes, IF f.exists THEN f.mode ELSE DefaultMode)

Path(name) == <<sanitized_domain, name>>

\* A faulty comparison: one that looks at the key alone.
SameContent_KeyOnly(cert_file, key_file, cert_text, key_text) ==
    /\ cert_file.exists
    /\ key_file.exists
    /\ ReadText(key_file.content).ok
    /\ ReadText(key_file.content).val = key_text

\* compare_certificates, when both files can be read.
SameContent(cert_file, key_file, cert_text, key_text) ==
    /\ cert_file.exists
    /\ key_file.exists
    /\ ReadText(cert_file.content).ok
    /\ ReadText(key_file.content).ok
    /\ ReadText(cert_file.content).val = cert_text
    /\ ReadText(key_file.content).val = key_text

\* compare_certificates raises inside its try: a file that is not UTF-8.
CompareRaises(cert_file, key_file) ==
    /\ cert_file.exists
    /\ key_file.exists
    /\ \/ ~ReadText(cert_file.content).ok
       \/ ~ReadText(key_file.content).ok

\* ------------------------------------------------------------------------
\* extract_certificates
\* ------------------------------------------------------------------------

\* A faulty opening: one that makes the output directory first.
OpenInput_MakesDirFirst ==
    /\ pc = "open"
    /\ outdir' = TRUE
    /\ IF acme_file = "missing"
       THEN /\ Say("Error: File not found", <<>>)
            /\ status' = 1
            /\ pc' = "exit"
            /\ UNCHANGED inputOpen
       ELSE /\ inputOpen' = TRUE
            /\ pc' = "load"
            /\ UNCHANGED << out, status >>
    /\ UNCHANGED << env, folders, archdirs, files, archived, now, faults,
                    data, certificates_data, idx, locals, extracted_count,
                    old, moved, written, last, final, changes >>

\* open(acme_file, 'r')
OpenInput ==
    /\ pc = "open"
    /\ IF acme_file = "missing"
       THEN /\ Say("Error: File not found", <<>>)
            /\ status' = 1
            /\ pc' = "exit"
            /\ UNCHANGED inputOpen
       ELSE /\ inputOpen' = TRUE
            /\ pc' = "load"
            /\ UNCHANGED << out, status >>
    /\ UNCHANGED << env, tree, now, faults, data, certificates_data, idx,
                    locals, extracted_count, old, moved, written, last,
                    final, changes >>

\* json.load(f), and the end of the with block
ReadInput ==
    /\ pc = "load"
    /\ inputOpen' = FALSE
    /\ IF acme_file = "badjson"
       THEN /\ Say("Error: not a valid JSON file", <<>>)
            /\ status' = 1
            /\ pc' = "exit"
            /\ UNCHANGED data
       ELSE /\ data' = store
            /\ pc' = "mkout"
            /\ UNCHANGED << out, status >>
    /\ UNCHANGED << env, tree, now, faults, certificates_data, idx, locals,
                    extracted_count, old, moved, written, last, final,
                    changes >>

\* os.makedirs(output_dir), the choice of the list, the empty-list return
MakeOutputDir ==
    /\ pc = "mkout"
    /\ \/ /\ outdir' = TRUE
          /\ extracted_count' = 0
          /\ certificates_data' = SelectCertificates(data)
          /\ IF SelectCertificates(data) = <<>>
             THEN /\ Say("No certificates found in the file", <<>>)
                  /\ pc' = "exit"
                  /\ UNCHANGED idx
             ELSE /\ idx' = 1
                  /\ pc' = "resolve"
                  /\ UNCHANGED out
          /\ UNCHANGED << status, faults >>
       \/ /\ CanFault
          /\ faults' = faults + 1
          /\ Crash
          /\ UNCHANGED << outdir, extracted_count, certificates_data, idx, out >>
    /\ UNCHANGED << env, inputOpen, folders, archdirs, files, archived, now,
                    data, locals, old, moved, written, last, final, changes >>

\* The domain of the record; an exception here is outside the loop's try.
ResolveDomain ==
    /\ pc = "resolve"
    /\ LET r == ResolveName(certificates_data[idx])
       IN  IF r.ok
           THEN /\ domain' = r.val
                /\ pc' = "decode"
                /\ UNCHANGED status
           ELSE /\ Crash
                /\ UNCHANGED domain
    /\ old' = NoOld
    /\ moved' = NoMoves
    /\ UNCHANGED << env, inputOpen, tree, now, faults, data,
                    certificates_data, idx, certificate, key,
                    sanitized_domain, fidx, extracted_count, out, written,
                    last, final, changes >>

\* The two fields: both non-empty, then base64 and UTF-8 decoded.
DecodeRecord ==
    /\ pc = "decode"
    /\ LET certificate_b64 == GetField(certificates_data[idx].certificate)
           key_b64 == GetField(certificates_data[idx].key)
           c == DecodeField(certificate_b64)
           k == DecodeField(key_b64)
       IN  IF certificate_b64 = <<>> \/ key_b64 = <<>>
           THEN /\ EndEarly("silent")
                /\ UNCHANGED << certificate, key, out >>
           ELSE IF c.ok /\ k.ok
           THEN /\ certificate' = c.val
                /\ key' = k.val
                /\ pc' = "mkdomain"
                /\ UNCHANGED << idx, out, last >>
           ELSE /\ Say("Error processing", domain)
                /\ EndEarly("error")
                /\ UNCHANGED << certificate, key >>
    /\ UNCHANGED << env, inputOpen, tree, now, faults, status, data,
                    certificates_data, domain, sanitized_domain, fidx,
                    extracted_count, old, moved, written, final, changes >>

\* The sanitized name and os.makedirs(domain_folder)
MakeDomainFolder ==
    /\ pc = "mkdomain"
    /\ sanitized_domain' = Sanitize(domain)
    /\ \/ /\ folders' = folders \cup {Sanitize(domain)}
          /\ pc' = "skipcheck"
          /\ UNCHANGED << faults, out, idx, last >>
       \/ /\ CanFault
          /\ faults' = faults + 1
          /\ Say("Error processing", domain)
          /\ EndEarly("error")
          /\ UNCHANGED folders
    /\ UNCHANGED << env, inputOpen, outdir, archdirs, files, archived, now,
                    status, data, certificates_data, domain, certificate,
                    key, fidx, extracted_count, old, moved, written, final,
                    changes >>

AfterSkipCheck == IF archive_old THEN "mkarchive" ELSE "wcert"

\* skip_existing and compare_certificates(...)
SkipCheck ==
    /\ pc = "skipcheck"
    /\ LET cert_file == files[Path(CertName)]
           key_file == files[Path(KeyName)]
       IN  \/ /\ skip_existing
              /\ SameContent(cert_file, key_file, certificate, key)
              /\ Say("Skipping, certificates already exist", domain)
              /\ EndRecord("skipped")
              /\ UNCHANGED faults
           \/ /\ skip_existing
              /\ CompareRaises(cert_file, key_file)
              /\ Say("Error comparing files", domain)
              /\ pc' = AfterSkipCheck
              /\ UNCHANGED << faults, idx, last, final >>
           \/ /\ skip_existing
              /\ cert_file.exists /\ key_file.exists
              /\ CanFault
              /\ faults' = faults + 1
              /\ Say("Error comparing files", domain)
              /\ pc' = AfterSkipCheck
              /\ UNCHANGED << idx, last, final >>
           \/ /\ ~skip_existing
                 \/ /\ ~SameContent(cert_file, key_file, certificate, key)
                    /\ ~CompareRaises(cert_file, key_file)
              /\ pc' = AfterSkipCheck
              /\ UNCHANGED << faults, out, idx, last, final >>
    /\ UNCHANGED << env, inputOpen, tree, now, status, data,
                    certificates_data, locals, extracted_count, old, moved,
                    written, changes >>

\* os.makedirs(archive_folder)
MakeArchiveFolder ==
    /\ pc = "mkarchive"
    /\ \/ /\ archdirs' = archdirs \cup {sanitized_domain}
          /\ fidx' = 1
          /\ old' = [n \in Range(FileNames) |-> files[Path(n)]]
          /\ pc' = "archive"
          /\ UNCHANGED << faults, out, idx, last, final >>
       \/ /\ CanFault
          /\ faults' = faults + 1
          /\ Say("Error processing", domain)
          /\ EndRecord("error")
          /\ UNCHANGED << archdirs, fidx, old >>
    /\ UNCHANGED << env, inputOpen, outdir, folders, files, archived, now,
                    status, data, certificates_data, domain, certificate,
                    key, sanitized_domain, extracted_count, moved, written,
                    changes >>

\* A faulty loop: one that stops after private_key.pem.
AfterArchive_TwoFiles == IF fidx >= Len(FileNames) - 1 THEN "wcert" ELSE "archive"

AfterArchive == IF fidx = Len(FileNames) THEN "wcert" ELSE "archive"

\* datetime.now(), to the second: the clock never runs backwards, and the
\* second in which the first file is archived is its origin.
Timestamps ==
    IF \A p \in DOMAIN archived : ~archived[p].exists
    THEN {now}
    ELSE now..MaxClock

\* One turn of the archive loop: the file, if it exists, is moved to
\* archive/<name>_<timestamp>; a failed move is reported.
ArchiveFile ==
    /\ pc = "archive"
    /\ LET file_name == FileNames[fidx]
           old_file == files[Path(file_name)]
       IN  \/ /\ ~old_file.exists
              /\ UNCHANGED << files, archived, now, faults, out, moved, changes >>
           \/ /\ old_file.exists
              /\ \E timestamp \in Timestamps :
                    /\ now' = timestamp
                    /\ archived' = [archived EXCEPT
                          ![<<sanitized_domain, file_name, timestamp>>] = old_file]
                    /\ moved' = [moved EXCEPT
                          ![file_name] = [res |-> "moved", ts |-> timestamp]]
              /\ files' = [files EXCEPT ![Path(file_name)] = NoFile]
              /\ Say("Archived old", file_name)
              /\ changes' = changes + 1
              /\ UNCHANGED faults
           \/ /\ old_file.exists
              /\ CanFault
              /\ faults' = faults + 1
              /\ moved' = [moved EXCEPT ![file_name] = [res |-> "failed", ts |-> 0]]
              /\ Say("Error archiving", file_name)
              /\ UNCHANGED << files, archived, now, changes >>
    /\ fidx' = fidx + 1
    /\ pc' = AfterArchive
    /\ UNCHANGED << env, inputOpen, outdir, folders, archdirs, status, data,
                    certificates_data, idx, domain, certificate, key,
                    sanitized_domain, extracted_count, old, written, last,
                    final >>

\* One of the three writes: open(path, 'w'), write, close.  An IOError at
\* the open leaves the file as it was, one at the write leaves it truncated;
\* either is reported and ends the record.
WriteStep(at, name, text, complaint, next) ==
    /\ pc = at
    /\ \/ /\ files' = [files EXCEPT
                ![Path(name)] = WrittenFile(files[Path(name)], utf8encode(text))]
          /\ written' = written \cup {Path(name)}
          /\ changes' = changes + 1
          /\ pc' = next
          /\ UNCHANGED << faults, out, idx, last, final >>
       \/ /\ CanFault
          /\ faults' = faults + 1
          /\ Say(complaint, domain)
          /\ EndRecord("abandoned")
          /\ UNCHANGED << files, written, changes >>
       \/ /\ CanFault
          /\ faults' = faults + 1
          /\ files' = [files EXCEPT
                ![Path(name)] = WrittenFile(files[Path(name)], <<>>)]
          /\ changes' = changes + 1
          /\ Say(complaint, domain)
          /\ EndRecord("abandoned")
          /\ UNCHANGED written
    /\ UNCHANGED << env, inputOpen, outdir, folders, archdirs, archived, now,
                    status, data, certificates_data, locals,
                    extracted_count, old, moved >>

\* Save certificate
WriteCertificate ==
    WriteStep("wcert", CertName, certificate,
              "Error writing certificate", "wkey")

\* Save private key
WritePrivateKey ==
    WriteStep("wkey", KeyName, key, "Error writing private key", "wcomb")

\* A faulty combined file: one with a line feed between the two texts.
WriteCombined_Separator ==
    WriteStep("wcomb", CombinedName, certificate \o <<LF>> \o key,
              "Error writing combined file", "chmod")

\* Save combined file (certificate + key)
WriteCombined ==
    WriteStep("wcomb", CombinedName, certificate \o key,
              "Error writing combined file", "chmod")

Chmod(f, mode) == [f EXCEPT !.mode = mode]

\* os.chmod(key_file, 0o600); os.chmod(combined_file, 0o600); the count
SetPermissions ==
    /\ pc = "chmod"
    /\ \/ /\ files' = [files EXCEPT
                ![Path(KeyName)] = Chmod(files[Path(KeyName)], OwnerOnly),
                ![Path(CombinedName)] = Chmod(files[Path(CombinedName)], OwnerOnly)]
          /\ changes' = changes + 2
          /\ extracted_count' = extracted_count + 1
          /\ EndRecord("extracted")
          /\ UNCHANGED << faults, out >>
       \/ /\ CanFault
          /\ faults' = faults + 1
          /\ Say("Error setting permissions", domain)
          /\ EndRecord("abandoned")
          /\ UNCHANGED << files, changes, extracted_count >>
       \/ /\ CanFault
          /\ faults' = faults + 1
          /\ files' = [files EXCEPT
                ![Path(KeyName)] = Chmod(files[Path(KeyName)], OwnerOnly)]
          /\ changes' = changes + 1
          /\ Say("Error setting permissions", domain)
          /\ EndRecord("abandoned")
          /\ UNCHANGED extracted_count
    /\ UNCHANGED << env, inputOpen, outdir, folders, archdirs, archived, now,
                    status, data, certificates_data, locals, old, moved,
                    written >>

\* print(f"Extracted {extracted_count} certificates to {output_dir}")
Summary ==
    /\ pc = "summary"
    /\ Say("Extracted", <<extracted_count>>)
    /\ pc' = "exit"
    /\ UNCHANGED << env, inputOpen, tree, now, faults, status, data,
                    certificates_data, idx, locals, extracted_count, old,
                    moved, written, last, final, changes >>

\* The tool is run again (by cron) on the same store and output directory.
Rerun ==
    /\ pc = "exit"
    /\ run < MaxRuns
    /\ run' = run + 1
    /\ pc' = "open"
    /\ status' = 0
    /\ data' = EmptyStore
    /\ certificates_data' = <<>>
    /\ idx' = 0
    /\ domain' = Unknown
    /\ certificate' = <<>>
    /\ key' = <<>>
    /\ sanitized_domain' = <<>>
    /\ fidx' = 0
    /\ extracted_count' = 0
    /\ out' = <<>>
    /\ old' = NoOld
    /\ moved' = NoMoves
    /\ written' = {}
    /\ last' = NoRecord
    /\ final' = [f \in Folders |-> NoRecord]
    /\ changes' = 0
    /\ UNCHANGED << input, inputOpen, tree, now, faults >>

\* ------------------------------------------------------------------------
\* Specifications
\* ------------------------------------------------------------------------

Next ==
    \/ OpenInput
    \/ ReadInput
    \/ MakeOutputDir
    \/ ResolveDomain
    \/ DecodeRecord
    \/ MakeDomainFolder
    \/ SkipCheck
    \/ MakeArchiveFolder
    \/ ArchiveFile
    \/ WriteCertificate
    \/ WritePrivateKey
    \/ WriteCombined
    \/ SetPermissions
    \/ Summary

\* One run of the tool.
Spec == Init /\ [][Next]_vars

\* One run, over stores that also hold the odd records.
InitAll == InitWith(StoresOf(RecordPool \cup OddRecords), InitialTrees)

SpecAll == InitAll /\ [][Next]_vars

\* Runs with -s, one after the other, on the same store and output tree.
InitTwice ==
    /\ InitWith(StoresOf(RecordPool), InitialTrees)
    /\ skip_existing = TRUE

NextTwice == Next \/ Rerun

SpecTwice == InitTwice /\ [][NextTwice]_vars

\* The domain descriptors: a `domain` map and a `domains` list of maps, each
\* present or not; a map has at most one entry for a key.
Maps ==
    {m \in SeqsUpTo({"main", "sans"} \X {NameA, NameStar}, MaxEntries) :
        \A i, j \in 1..Len(m) : m[i][1] = m[j][1] => i = j}

Descriptors ==
    [domain : {Absent} \cup {Present(m) : m \in Maps},
     domains : {Absent} \cup {Present(l) : l \in SeqsUpTo(Maps, MaxEntries)}]

\* The loop at a record of any descriptor, about to resolve its domain.
InitResolve ==
    /\ acme_file = "ok"
    /\ \E d \in Descriptors :
          store = [letsencrypt |-> Present(<< Record(d.domain, d.domains,
                                     Present(b64encode(TextA)),
                                     Present(b64encode(TextK))) >>),
                   acme |-> Absent]
    /\ archive_old = FALSE
    /\ skip_existing = FALSE
    /\ outdir = TRUE
    /\ folders = {}
    /\ files = NoFiles
    /\ archdirs = {}
    /\ archived = [p \in Folders \X Range(FileNames) \X Clock |-> NoFile]
    /\ now = 0
    /\ faults = 0
    /\ run = 1
    /\ pc = "resolve"
    /\ status = 0
    /\ inputOpen = FALSE
    /\ data = store
    /\ certificates_data = SelectCertificates(store)
    /\ idx = 1
    /\ domain = Unknown
    /\ certificate = <<>>
    /\ key = <<>>
    /\ sanitized_domain = <<>>
    /\ fidx = 0
    /\ extracted_count = 0
    /\ out = <<>>
    /\ old = NoOld
    /\ moved = NoMoves
    /\ written = {}
    /\ last = NoRecord
    /\ final = [f \in Folders |-> NoRecord]
    /\ changes = 0

SpecResolve == InitResolve /\ [][ResolveDomain]_vars

\* ------------------------------------------------------------------------
\* What the properties speak of
\* ------------------------------------------------------------------------

\* A field is well formed when it is the base64 of one of the texts.
Encoded(opt) == opt.present /\ \E t \in Plaintexts : b64encode(t) = opt.val

PlainOf(opt) == CHOOSE t \in Plaintexts : b64encode(t) = opt.val

WellFormed(rec) == Encoded(rec.certificate) /\ Encoded(rec.key)

FolderOf(rec) == Sanitize(ResolveName(rec).val)

\* The last well-formed record before position n that resolves to folder f,
\* or 0 when there is none.
LastValidBefore(f, n) ==
    LET S == {i \in 1..Len(certificates_data) :
                 /\ i < n
                 /\ WellFormed(certificates_data[i])
                 /\ ResolveName(certificates_data[i]).ok
                 /\ FolderOf(certificates_data[i]) = f}
    IN  IF S = {} THEN 0 ELSE CHOOSE i \in S : \A j \in S : j <= i

LinesOf(i) == {j \in 1..Len(out) : out[j].idx = i}

SkipLines == {j \in 1..Len(out) : out[j].line = "Skipping, certificates already exist"}

WritePhase == {"wcert", "wkey", "wcomb", "chmod"}

RecordJustEnded == last.idx > 0 /\ pc \in {"resolve", "summary"}

\* The three files of folder f hold the texts of record rec.
HoldsRecord(f, rec) ==
    /\ files[<<f, CertName>>].exists
    /\ files[<<f, KeyName>>].exists
    /\ files[<<f, CombinedName>>].exists
    /\ files[<<f, CertName>>].content = PlainOf(rec.certificate)
    /\ files[<<f, KeyName>>].content = PlainOf(rec.key)
    /\ files[<<f, CombinedName>>].content =
          PlainOf(rec.certificate) \o PlainOf(rec.key)

\* ------------------------------------------------------------------------
\* Properties
\* ------------------------------------------------------------------------

\* C1: with -s, a second run on the unchanged store writes, moves and
\* chmods nothing, and prints one "already exist" line for each record it
\* could have extracted.
C1_SecondRunIdle ==
    (run = 2 /\ skip_existing /\ faults = 0) =>
        /\ changes = 0
        /\ pc = "exit" =>
              Cardinality(SkipLines) =
                  Cardinality({i \in 1..Len(certificates_data) :
                                  WellFormed(certificates_data[i])})

\* With -a, while a record's files are written: every output file that
\* existed has had its move attempted, and a moved one lies in archive/
\* under <name>_<timestamp> as it was; at the first write it is gone from
\* the folder.
C2_ArchivedBeforeWritten ==
    (archive_old /\ pc \in WritePhase) =>
        \A n \in Range(FileNames) :
            /\ old[n].exists =>
                  \/ moved[n].res = "failed"
                  \/ /\ moved[n].res = "moved"
                     /\ archived[<<sanitized_domain, n, moved[n].ts>>] = old[n]
            /\ (pc = "wcert" /\ moved[n].res = "moved") =>
                  ~files[Path(n)].exists

\* With -a, a record that has been written holds the new texts.
C2_WrittenFresh ==
    (archive_old /\ RecordJustEnded /\ last.outcome = "extracted") =>
        HoldsRecord(last.folder, certificates_data[last.idx])

\* Whatever its outcome, a turn of the archive loop leads to the next turn
\* or to the first write, within the same record.
C2_MoveNeverStopsTheRecord ==
    pc = "archive" => (pc' \in {"archive", "wcert"} /\ idx' = idx)

\* C2: with -a, by the time a record's first file is written every output
\* file that existed has had its move attempted, the moved ones lie in
\* archive/ under <name>_<timestamp> as they were and are gone from the
\* folder; whatever a move's outcome, the loop goes on to the next file or
\* to the writes; and a record that is then written holds the new texts.
C2_ArchiveOrdering ==
    /\ [](C2_ArchivedBeforeWritten /\ C2_WrittenFresh)
    /\ [][C2_MoveNeverStopsTheRecord]_vars

\* A record was written after its certificate could not be moved and its
\* key and combined file were.
C2_Witness ==
    /\ archive_old
    /\ RecordJustEnded
    /\ last.outcome = "extracted"
    /\ moved[CertName].res = "failed"
    /\ moved[KeyName].res = "moved"
    /\ moved[CombinedName].res = "moved"

\* C3: a private_key.pem or combined.pem that the tool has written grants
\* access to the owner alone, in every state from the write on.
C3_KeyFilesOwnerOnly ==
    \A p \in written :
        (p[2] \in {KeyName, CombinedName} /\ files[p].exists) =>
            files[p].mode \subseteq OwnerOnly

\* C4: no record ends the run: once the loop has begun, the run ends with
\* every record passed, the summary printed and exit status zero.
C4_RunCompletes ==
    (pc = "exit" /\ certificates_data # <<>>) =>
        /\ status = 0
        /\ idx = Len(certificates_data) + 1
        /\ out # <<>>
        /\ out[Len(out)].line = "Extracted"

\* The four-step precedence: `domain.main`, else the first value of a
\* non-empty `domain`, else the `main` of the first `domains` element that
\* has one, else "unknown".
ClaimedName(rec) ==
    IF rec.domain.present /\ HasKey(rec.domain.val, "main")
    THEN Lookup(rec.domain.val, "main")
    ELSE IF rec.domain.present /\ rec.domain.val # <<>>
    THEN rec.domain.val[1][2]
    ELSE IF /\ rec.domains.present
            /\ \E i \in 1..Len(rec.domains.val) : HasKey(rec.domains.val[i], "main")
    THEN Lookup(rec.domains.val[CHOOSE i \in 1..Len(rec.domains.val) :
                    /\ HasKey(rec.domains.val[i], "main")
                    /\ \A j \in 1..(i - 1) : ~HasKey(rec.domains.val[j], "main")],
                "main")
    ELSE Unknown

\* C5: the domain resolved for a record, of any shape, is the one the
\* four-step precedence gives.
C5_Precedence ==
    pc = "decode" => domain = ClaimedName(certificates_data[idx])

\* C6: a record with a missing, empty or undecodable field is passed over
\* with exactly one printed line, which names its domain.
C6_InvalidSkippedWithDiagnostic ==
    (RecordJustEnded /\ ~WellFormed(certificates_data[last.idx])) =>
        /\ last.outcome \in {"silent", "error"}
        /\ Cardinality(LinesOf(last.idx)) = 1
        /\ \A j \in LinesOf(last.idx) :
              out[j].arg = ResolveName(certificates_data[last.idx]).val

\* C7: a file under archive/ is never overwritten, changed or removed (in
\* a run without I/O failure, too).
C7_ArchiveWriteOnce ==
    [][faults' = 0 =>
          \A p \in DOMAIN archived :
              archived[p].exists => archived'[p] = archived[p]]_vars

\* With a missing or unparsable input the run is opening or loading it, or
\* has ended, with a non-zero status; until then it can go on.
C8_FatalEndsNonZero ==
    acme_file # "ok" =>
        /\ pc \in {"open", "load", "exit"}
        /\ pc = "exit" => status # 0
        /\ pc # "exit" => ENABLED (OpenInput \/ ReadInput)
        /\ changes = 0

\* No step changes the output tree when the input is missing or unparsable,
\* and a step that changes it finds the input loaded and closed.

C8_TreeChangesAfterLoad ==
    /\ acme_file # "ok" => UNCHANGED tree
    /\ tree' # tree => (~inputOpen /\ data = store /\ pc \notin {"open", "load"})

\* C8: a missing or unparsable input file ends the run with a non-zero
\* status and leaves the output tree as it was; and the output tree changes
\* only once the input is loaded and closed.
C8_FatalInputWritesNothing ==
    /\ []C8_FatalEndsNonZero
    /\ [][C8_TreeChangesAfterLoad]_vars

\* The run has ended on unparsable input, with no output directory.
C8_Witness ==
    /\ acme_file = "badjson"
    /\ pc = "exit"
    /\ status = 1
    /\ ~outdir

\* C9: once a well-formed record is written, certificate.pem holds the
\* bytes its certificate field encodes, private_key.pem those of its key
\* field, and combined.pem the former followed by the latter.
C9_FilesHoldDecodedTexts ==
    (RecordJustEnded /\ last.outcome = "extracted") =>
        /\ WellFormed(certificates_data[last.idx])
        /\ HoldsRecord(last.folder, certificates_data[last.idx])

\* The wildcard record, whose certificate ends in CRLF, has been written.
C9_Witness ==
    /\ RecordJustEnded
    /\ last.outcome = "extracted"
    /\ last.folder = Sanitize(NameStar)
    /\ files[<<Sanitize(NameStar), CertName>>].content = TextC
    /\ files[<<Sanitize(NameStar), CombinedName>>].content = TextC \o TextK

\* C10, as claimed: at the end of a run without I/O failure every folder a
\* well-formed record resolved to holds the three files of the last such
\* record.
C10_EveryFolderConsistent ==
    (pc = "exit" /\ faults = 0) =>
        \A f \in Folders :
            LastValidBefore(f, idx) > 0 =>
                HoldsRecord(f, certificates_data[LastValidBefore(f, idx)])

\* C10, amended: at the end of a run without I/O failure, a folder whose
\* last well-formed record was written holds the three files of that
\* record; one whose last well-formed record was skipped holds a
\* certificate.pem and a private_key.pem that read as that record's texts.
C10_WrittenOrSkipped ==
    (pc = "exit" /\ faults = 0) =>
        \A f \in Folders :
            LET i == LastValidBefore(f, idx)
                rec == certificates_data[i]
            IN  i > 0 =>
                  /\ final[f].idx = i
                  /\ final[f].outcome \in {"extracted", "skipped"}
                  /\ final[f].outcome = "extracted" => HoldsRecord(f, rec)
                  /\ final[f].outcome = "skipped" =>
                        /\ files[<<f, CertName>>].exists
                        /\ files[<<f, KeyName>>].exists
                        /\ ReadText(files[<<f, CertName>>].content) =
                              utf8decode(PlainOf(rec.certificate))
                        /\ ReadText(files[<<f, KeyName>>].content) =
                              utf8decode(PlainOf(rec.key))

\* A record was skipped in a folder that has no combined.pem.
C10_Witness ==
    /\ pc = "exit"
    /\ faults = 0
    /\ final[NameA].outcome = "skipped"
    /\ ~files[<<NameA, CombinedName>>].exists

====
